---- MODULE Spec2Model ----
(***************************************************************************)
(* Campaign lifecycle and send dispatch of the phishing simulation         *)
(* platform: PhishingService (management side), TcpClientService (the      *)
(* private channel client) and EmailController/EmailService (the Send      *)
(* Dispatcher on the simulation side).                                     *)
(*                                                                         *)
(* Every HTTP request is a call slot that walks through the await points   *)
(* of its handler; the code between two await points is one atomic step,   *)
(* because Node runs it without interleaving.  The Campaign Store is the   *)
(* Mongo collection behind phishingAttemptModel: findById reads a copy of  *)
(* the document, save() writes the paths that were modified on that copy.  *)
(***************************************************************************)
EXTENDS Integers, Sequences, FiniteSets, TLC

\* ---------------------------------------------------------------- bounds
MaxAttempts == 2
NumCalls == 2
MaxNow == 40
TickStep == 10
MaxFairCalls == 1
MaxWideCalls == 1
MaxPieces == 3

\* ------------------------------------------------------ program constants
\* timeout(30000) of the channel call, in seconds
TCP_TIMEOUT == 30

Ids == 1..MaxAttempts
Calls == 1..NumCalls

\* PhishingStatus
PENDING == "pending"
SENT == "sent"
CLICKED == "clicked"
FAILED == "failed"

\* an optional Date is <<>> (undefined) or <<t>>
NoDate == <<>>

\* a string is a sequence of pieces, each with the number of characters it
\* stands for; an optional string is <<>> (undefined) or <<s>>
Piece(t, n) == [t |-> t, n |-> n]
CLICK_LINK == Piece("{{CLICK_LINK}}", 14)
AtSign == Piece("@", 1)
Undefined == <<>>

RECURSIVE StrLen(_)
StrLen(s) == IF s = <<>> THEN 0 ELSE Head(s).n + StrLen(Tail(s))

\* content.includes(piece)
Includes(s, piece) == \E i \in DOMAIN s : s[i] = piece

\* req.user.id of the authenticated users
Users == {"u1", "u2"}

\* what findById resolves to when no document has the id
NullDoc ==
  [status |-> "null", sentAt |-> NoDate, clickedAt |-> NoDate, createdBy |-> "",
   recipientEmail |-> <<>>, subject |-> <<>>, emailContent |-> <<>>, createdAt |-> NoDate]

NoError == [code |-> "", message |-> ""]
NoResponse == [success |-> FALSE, message |-> <<>>, sentAt |-> NoDate, error |-> NoError]
NoResult == [kind |-> "none", message |-> <<>>]
NoDto == [attemptId |-> 0, recipientEmail |-> <<>>, subject |-> <<>>, emailContent |-> <<>>]
NoCreate == [dto |-> [recipientEmail |-> <<>>, emailContent |-> Undefined, subject |-> Undefined],
             userId |-> "", response |-> NoResult]

VARIABLES attempts, calls, net, received, delivered, now, lastCreate, mailbox, health, probe,
          templates

vars == <<attempts, calls, net, received, delivered, now, lastCreate, mailbox, health, probe, templates>>

\* ------------------------------------------------------------ the store
findById(id) == IF id \in DOMAIN attempts THEN attempts[id] ELSE NullDoc

\* the documents of the collection with their _id, in the order of insertion
Documents == [i \in DOMAIN attempts |-> [id |-> i, doc |-> attempts[i]]]

\* .sort({ createdAt: -1 }): newest first, documents of the same instant in the
\* order they had
RECURSIVE SortNewestFirst(_)
SortNewestFirst(rs) ==
  IF rs = <<>> THEN <<>>
  ELSE LET sorted == SortNewestFirst(Tail(rs))
           newer(r) == r.doc.createdAt[1] > Head(rs).doc.createdAt[1]
           notNewer(r) == ~newer(r)
       IN SelectSeq(sorted, newer) \o <<Head(rs)>> \o SelectSeq(sorted, notNewer)

\* PhishingService.getAllAttempts: find({ createdBy: userId }).sort({ createdAt: -1 }),
\* whole documents, no projection
getAllAttempts_NoFilter(userId) == SortNewestFirst(Documents)
getAllAttempts(userId) ==
  LET mine(r) == r.doc.createdBy = userId IN SortNewestFirst(SelectSeq(Documents, mine))

\* PhishingService.getAttemptById: findOne({ _id: id, createdBy: userId })
getAttemptById(id, userId) ==
  IF id \in DOMAIN attempts /\ attempts[id].createdBy = userId
  THEN [result |-> [kind |-> "ok", message |-> <<>>], doc |-> attempts[id]]
  ELSE [result |-> [kind |-> "NotFoundException", message |-> <<"Phishing attempt not found">>],
        doc |-> NullDoc]

\* document.set(path, value): a path is marked modified only when the value changes
SetPath_AlwaysDirty(d, f, v) ==
  [doc |-> [d.doc EXCEPT ![f] = v], dirty |-> d.dirty \cup {f}]
SetPath(d, f, v) ==
  IF d.doc[f] = v THEN d
  ELSE [doc |-> [d.doc EXCEPT ![f] = v], dirty |-> d.dirty \cup {f}]

\* document.save(): $set of the modified paths on the stored document, nothing when none is modified
SaveDoc_NoSet(stored, doc, dirty) ==
  [f \in DOMAIN stored |-> IF f \in dirty THEN doc[f] ELSE NullDoc[f]]
SaveDoc(stored, doc, dirty) ==
  [f \in DOMAIN stored |-> IF f \in dirty THEN doc[f] ELSE stored[f]]

save(id, doc, dirty) == [attempts EXCEPT ![id] = SaveDoc(attempts[id], doc, dirty)]

\* if (attempt.status !== PhishingStatus.PENDING)
AlreadyProcessedGuard_SentOnly(attempt) == attempt.status = SENT
AlreadyProcessedGuard(attempt) == attempt.status # PENDING

\* if (attempt.status === PhishingStatus.CLICKED)
AlreadyClickedGuard_Never(attempt) == FALSE
AlreadyClickedGuard(attempt) == attempt.status = CLICKED

\* attempt.status = PhishingStatus.FAILED
markFailed_Forgotten(d) == d
markFailed(d) == SetPath(d, "status", FAILED)

\* response.sentAt || new Date()
resolveSentAt_AlwaysNow(response, t) == <<t>>
resolveSentAt(response, t) == IF response.sentAt # NoDate THEN response.sentAt ELSE <<t>>

\* value || fallback for an optional string: undefined and '' are falsy
OrDefault(opt, fallback) == IF opt # Undefined /\ opt[1] # <<>> THEN opt[1] ELSE fallback

\* the defaults of PhishingService.createAttempt
defaultSubject == <<Piece("Urgent: Account Verification Required", 37)>>
defaultContent == <<Piece("<div><h2>Account Verification Required</h2><a href=", 381), CLICK_LINK,
                    Piece(">Verify Account</a></div>", 295)>>

\* ----------------------------------------------- CreatePhishingAttemptDto
\* @MaxLength of emailContent and of subject
MAX_CONTENT_LENGTH == 10000
MAX_SUBJECT_LENGTH == 200

\* @IsEmail: local part, @, domain
IsEmail_Any(s) == TRUE
IsEmail(s) == Len(s) = 3 /\ s[2] = AtSign /\ s[1] # AtSign /\ s[3] # AtSign

\* the messages of the constraints of CreatePhishingAttemptDto that dto violates;
\* @IsOptional skips the constraints of an undefined property
validateDto(dto) ==
  (IF IsEmail(dto.recipientEmail) THEN <<>>
   ELSE <<"Please provide a valid recipient email address">>)
  \o (IF dto.emailContent # Undefined /\ StrLen(dto.emailContent[1]) > MAX_CONTENT_LENGTH
      THEN <<"Email content cannot exceed 10,000 characters">> ELSE <<>>)
  \o (IF dto.subject # Undefined /\ StrLen(dto.subject[1]) > MAX_SUBJECT_LENGTH
      THEN <<"Subject cannot exceed 200 characters">> ELSE <<>>)
  \o (IF dto.subject # Undefined /\ StrLen(dto.subject[1]) < 1
      THEN <<"Subject cannot be empty if provided">> ELSE <<>>)

\* the BadRequestException of the global ValidationPipe
ValidationError(errors) == [kind |-> "BadRequestException", message |-> errors]

\* ------------------------------------------------------------ exceptions
NotFoundException == [kind |-> "NotFoundException", message |-> <<"Phishing attempt not found">>]
AlreadyProcessed == [kind |-> "BadRequestException", message |-> <<"Phishing attempt has already been processed">>]
Returned == [kind |-> "ok", message |-> <<>>]

\* `Failed to send phishing email: ${response.message || 'Unknown error'}`
SendFailedException(response) ==
  [kind |-> "BadRequestException",
   message |-> <<"Failed to send phishing email: ">> \o
               (IF response.message # <<>> THEN response.message ELSE <<"Unknown error">>)]

\* ------------------------------------------------------- channel client
\* the structured error TcpClientService returns from its catch block
TcpErrorResponse_Optimistic(reason) ==
  [success |-> TRUE,
   message |-> <<"Failed to communicate with email service">>,
   sentAt |-> NoDate,
   error |-> [code |-> "TCP_COMMUNICATION_ERROR", message |-> reason]]
TcpErrorResponse(reason) ==
  [success |-> FALSE,
   message |-> <<"Failed to communicate with email service">>,
   sentAt |-> NoDate,
   error |-> [code |-> "TCP_COMMUNICATION_ERROR", message |-> reason]]

\* ----------------------------------------------------- send dispatcher
\* EmailService.sendPhishingEmail: the result for a transport outcome
EmailServiceResult_AlwaysSuccess(outcome, t) ==
  [success |-> TRUE, message |-> <<"Phishing email sent successfully">>,
   sentAt |-> <<t>>, error |-> NoError]
EmailServiceResult(outcome, t) ==
  IF outcome = "accepted"
  THEN [success |-> TRUE, message |-> <<"Phishing email sent successfully">>,
        sentAt |-> <<t>>, error |-> NoError]
  ELSE [success |-> FALSE, message |-> <<"Failed to send phishing email">>,
        sentAt |-> NoDate,
        error |-> [code |-> "SMTP_ERROR",
                   message |-> IF outcome = "rejected" THEN "smtp failure" ELSE "unexpected exception"]]

\* what the catch block of EmailController.handleSendPhishingEmail returns
InternalErrorResponse ==
  [success |-> FALSE,
   message |-> <<"Unexpected error occurred while processing email request">>,
   sentAt |-> NoDate, error |-> [code |-> "INTERNAL_ERROR", message |-> "Unknown error"]]

\* await this.emailService.sendPhishingEmail(data): the whole body of the service
\* method is inside its try block, so the promise is never rejected
emailServiceCall(outcome, t) == [threw |-> FALSE, value |-> EmailServiceResult(outcome, t)]

\* EmailController.handleSendPhishingEmail: try { return result } catch { structured error }
controllerHandle(call) ==
  [threw |-> FALSE, value |-> IF call.threw THEN InternalErrorResponse ELSE call.value]

\* transporter.sendMail resolves or rejects
TransportOutcomes == {"accepted", "rejected"}
\* ... or anything else inside the try block throws
AllOutcomes == TransportOutcomes \cup {"threw"}

\* the requests of the specification with one operator and the default campaign
DefaultDto ==
  [recipientEmail |-> <<Piece("a", 1), AtSign, Piece("example.com", 11)>>,
   emailContent |-> Undefined, subject |-> Undefined]
SpecDtos == {DefaultDto}
SpecUsers == {"u1"}

\* requests with caller-supplied fields
CustomContent == <<Piece("<p>Hello</p><a href=", 20), CLICK_LINK, Piece(">here</a>", 9)>>
NoLinkContent == <<Piece("<p>Hello</p><a href=", 20), Piece(">here</a>", 9)>>
HugeContent == <<Piece("<p>", MAX_CONTENT_LENGTH), CLICK_LINK>>
CreateDtos ==
  { DefaultDto,
    [DefaultDto EXCEPT !.emailContent = <<CustomContent>>, !.subject = <<<<Piece("Hi", 2)>>>>],
    [DefaultDto EXCEPT !.emailContent = <<NoLinkContent>>],
    [DefaultDto EXCEPT !.emailContent = <<HugeContent>>],
    [DefaultDto EXCEPT !.recipientEmail = <<Piece("not-an-email", 12)>>],
    [DefaultDto EXCEPT !.subject = <<<<>>>>],
    [DefaultDto EXCEPT !.emailContent = <<<<>>>>] }

\* CLICK_TRACKING_BASE_URL of the simulation backend
CLICK_TRACKING_BASE_URL == "http://localhost:3002/api/phishing/click"

\* EmailService.generateClickTrackingUrl: `${baseUrl}/${attemptId}`, 40 characters
\* of base URL, the slash and the 24 characters of an ObjectId
generateClickTrackingUrl(attemptId) ==
  Piece(CLICK_TRACKING_BASE_URL \o "/" \o ToString(attemptId), 65)

TIMESTAMP == Piece("{{TIMESTAMP}}", 13)
\* new Date().toLocaleString()
LocaleString(t) == Piece("date " \o ToString(t), 21)

\* EmailService.processEmailContent: both replacements are global
processEmailContent_FirstOnly(content, clickUrl, t) ==
  [i \in DOMAIN content |->
     IF content[i] = CLICK_LINK /\ (\A j \in 1..(i - 1) : content[j] # CLICK_LINK) THEN clickUrl
     ELSE IF content[i] = TIMESTAMP THEN LocaleString(t)
     ELSE content[i]]
processEmailContent(content, clickUrl, t) ==
  [i \in DOMAIN content |->
     IF content[i] = CLICK_LINK THEN clickUrl
     ELSE IF content[i] = TIMESTAMP THEN LocaleString(t)
     ELSE content[i]]

\* mailOptions of EmailService.sendPhishingEmail (the text alternative is left
\* out); attemptId is the id of the request the mail was built for
mailOptions(emailData, t) ==
  [to |-> emailData.recipientEmail,
   subject |-> emailData.subject,
   html |-> processEmailContent(emailData.emailContent,
                                generateClickTrackingUrl(emailData.attemptId), t),
   attemptId |-> emailData.attemptId]

\* transporter.verify() resolves or rejects
VerifyOutcomes == {"ok", "fail"}

\* EmailService.healthCheck: try { verify; return true } catch { return false }
healthCheck_Rethrow(verify) == [threw |-> verify = "fail", value |-> verify = "ok"]
healthCheck(verify) == [threw |-> FALSE, value |-> verify = "ok"]

NoHealth == [status |-> "none", timestamp |-> NoDate, emailServiceReady |-> FALSE]

\* the response of EmailController.handleHealthCheck
healthResponse(call, t) ==
  IF call.threw
  THEN [status |-> "unhealthy", timestamp |-> <<t>>, emailServiceReady |-> FALSE]
  ELSE [status |-> IF call.value THEN "healthy" ELSE "degraded",
        timestamp |-> <<t>>, emailServiceReady |-> call.value]

\* ---------------------------------------------------------- template catalog
Template(id, subject, before, after, category) ==
  [id |-> id, subject |-> subject, category |-> category,
   content |-> <<Piece(id \o " head", before), CLICK_LINK, Piece(id \o " tail", after)>>]

\* EMAIL_TEMPLATES: each content by the text before and after its placeholder
EMAIL_TEMPLATES ==
  << [id |-> "security-verification", subject |-> defaultSubject, category |-> "security",
      content |-> defaultContent],
     Template("password-reset", <<Piece("Password Reset - Action Required", 32)>>, 359, 331, "security"),
     Template("social-linkedin", <<Piece("You have a new connection request", 33)>>, 512, 232, "social"),
     Template("urgent-invoice", <<Piece("URGENT: Invoice Payment Overdue", 31)>>, 521, 273, "urgency"),
     Template("reward-survey", <<Piece("Congratulations! You've won a $500 gift card", 44)>>, 589, 311, "reward") >>

\* content.length > 50000
MAX_TEMPLATE_LENGTH == 50000

\* TemplateService.validateTemplate
validateTemplate_Inclusive(content) ==
  LET errors ==
        (IF ~Includes(content, CLICK_LINK)
         THEN <<"Template must include {{CLICK_LINK}} placeholder">> ELSE <<>>)
        \o (IF StrLen(content) >= MAX_TEMPLATE_LENGTH
            THEN <<"Template content too large (max 50KB)">> ELSE <<>>)
  IN [valid |-> errors = <<>>, errors |-> errors]
validateTemplate(content) ==
  LET errors ==
        (IF ~Includes(content, CLICK_LINK)
         THEN <<"Template must include {{CLICK_LINK}} placeholder">> ELSE <<>>)
        \o (IF StrLen(content) > MAX_TEMPLATE_LENGTH
            THEN <<"Template content too large (max 50KB)">> ELSE <<>>)
  IN [valid |-> errors = <<>>, errors |-> errors]

NoProbe == [op |-> "none", input |-> <<>>, output |-> <<>>]

\* ------------------------------------------------------------- controllers
\* PhishingController.sendPhishingEmail: every error of the service becomes a
\* BadRequestException with the same message
ctlSendPhishingEmail_Generic(result) ==
  IF result.kind = "ok" THEN result
  ELSE [kind |-> "BadRequestException", message |-> <<"Failed to send phishing email">>]
ctlSendPhishingEmail(result) ==
  IF result.kind = "ok" THEN result
  ELSE [kind |-> "BadRequestException", message |-> result.message]

\* process.env.CORS_ORIGIN || 'http://localhost:3000'
frontendUrl == "http://localhost:3000"
PhishedPage(attemptId) == <<frontendUrl, "/phished/", attemptId>>

\* PhishingController.trackClick: res.redirect in the try and in the catch branch
ctlTrackClick_Propagate(result, attemptId) ==
  IF result.kind = "ok"
  THEN [kind |-> "redirect", location |-> PhishedPage(attemptId)]
  ELSE [kind |-> result.kind, location |-> <<>>]
ctlTrackClick(result, attemptId) ==
  IF result.kind = "ok"
  THEN [kind |-> "redirect", location |-> PhishedPage(attemptId)]
  ELSE [kind |-> "redirect", location |-> PhishedPage(attemptId)]

\* PhishingController.apiTrackClick
ctlApiTrackClick_Swallow(result) ==
  [kind |-> "ok", message |-> <<"Click tracked successfully">>]
ctlApiTrackClick(result) ==
  IF result.kind = "ok" THEN [kind |-> "ok", message |-> <<"Click tracked successfully">>]
  ELSE IF result.kind = "NotFoundException"
  THEN [kind |-> "NotFoundException", message |-> <<"Phishing attempt not found">>]
  ELSE result

\* ---------------------------------------------------------------- state
IdleCall ==
  [pc |-> "idle", op |-> "none", id |-> 0, doc |-> NullDoc, dirty |-> {},
   started |-> 0, after |-> {}, user |-> "", response |-> NoResponse, thrown |-> NoResult, result |-> NoResult]

IdleNet == [st |-> "none", dto |-> NoDto, reply |-> NoResponse]

Init ==
  /\ attempts = <<>>
  /\ calls = [c \in Calls |-> IdleCall]
  /\ net = [c \in Calls |-> IdleNet]
  /\ received = [i \in Ids |-> 0]
  /\ delivered = [i \in Ids |-> 0]
  /\ now = 0
  /\ lastCreate = NoCreate
  /\ mailbox = {}
  /\ health = NoHealth
  /\ probe = NoProbe
  /\ templates = EMAIL_TEMPLATES

\* call slots are taken in order
CanInvoke(c) ==
  /\ calls[c].pc = "idle"
  /\ \A b \in Calls : b < c => calls[b].pc # "idle"

\* the calls that have completed; a call records them when it is invoked
Completed == {b \in Calls : calls[b].pc = "done"}

\* .pipe(timeout(30000)): the timer of call c has run out
timedOut_NoTimer(c) == FALSE
timedOut(c) == now - calls[c].started >= TCP_TIMEOUT

\* the number of ticks after which a timer started now has fired
TicksToTimeout == (TCP_TIMEOUT + TickStep - 1) \div TickStep

\* the createdAt the schema's timestamps put on a document when it is first saved
stampCreatedAt(doc, t) == [doc EXCEPT !.createdAt = <<t>>]

\* new this.phishingAttemptModel({...}) of PhishingService.createAttempt
newAttempt(dto, userId) ==
  [status |-> PENDING, sentAt |-> NoDate, clickedAt |-> NoDate, createdBy |-> userId,
   recipientEmail |-> dto.recipientEmail,
   subject |-> OrDefault(dto.subject, defaultSubject),
   emailContent |-> OrDefault(dto.emailContent, defaultContent),
   createdAt |-> NoDate]

\* POST attempts: the global ValidationPipe on the body, then
\* PhishingService.createAttempt
createAttempt(dto, userId) ==
  /\ LET errors == validateDto(dto) IN
     IF errors # <<>>
     THEN /\ lastCreate' = [dto |-> dto, userId |-> userId, response |-> ValidationError(errors)]
          /\ UNCHANGED attempts
     ELSE /\ Len(attempts) < MaxAttempts
          /\ attempts' = Append(attempts, stampCreatedAt(newAttempt(dto, userId), now))
          /\ lastCreate' = [dto |-> dto, userId |-> userId, response |-> Returned]
  /\ UNCHANGED <<calls, net, received, delivered, now, mailbox, health, probe, templates>>

\* PhishingService.sendPhishingEmail up to the channel call: findById, the two
\* guards, the send request handed to TcpClientService
sendFind(c, id, user) ==
  /\ CanInvoke(c)
  /\ LET attempt == findById(id)
         base == [calls[c] EXCEPT !.op = "send", !.id = id, !.after = Completed, !.user = user] IN
     IF attempt = NullDoc
     THEN /\ calls' = [calls EXCEPT ![c] = [base EXCEPT !.pc = "done", !.result = NotFoundException]]
          /\ UNCHANGED net
     ELSE IF AlreadyProcessedGuard(attempt)
     THEN /\ calls' = [calls EXCEPT ![c] = [base EXCEPT !.pc = "done", !.result = AlreadyProcessed]]
          /\ UNCHANGED net
     ELSE /\ now + TicksToTimeout * TickStep <= MaxNow
          /\ calls' = [calls EXCEPT ![c] = [base EXCEPT !.pc = "await_tcp", !.doc = attempt,
                                                         !.dirty = {}, !.started = now]]
          /\ net' = [net EXCEPT ![c] = [st |-> "request",
                                        dto |-> [attemptId |-> id,
                                                 recipientEmail |-> attempt.recipientEmail,
                                                 subject |-> attempt.subject,
                                                 emailContent |-> attempt.emailContent],
                                        reply |-> NoResponse]]
  /\ UNCHANGED <<attempts, received, delivered, now, lastCreate, mailbox, health, probe, templates>>

\* EmailController.handleSendPhishingEmail with EmailService.sendPhishingEmail:
\* the dispatcher takes the request off the channel, hands the mail to the
\* transport and puts the structured result on the channel
handleSendPhishingEmail(c, outcome) ==
  /\ net[c].st = "request"
  /\ LET id == net[c].dto.attemptId
         handled == controllerHandle(emailServiceCall(outcome, now)) IN
     /\ received' = [received EXCEPT ![id] = @ + 1]
     /\ delivered' = [delivered EXCEPT ![id] = IF outcome = "accepted" THEN @ + 1 ELSE @]
     /\ mailbox' = IF outcome = "accepted" THEN mailbox \cup {mailOptions(net[c].dto, now)} ELSE mailbox
     /\ net' = [net EXCEPT ![c] = [@ EXCEPT !.st = IF handled.threw THEN "rpc_error" ELSE "reply",
                                            !.reply = handled.value]]
  /\ UNCHANGED <<attempts, calls, now, lastCreate, health, probe, templates>>

\* TcpClientService.sendPhishingEmail: the response (or the error packet of a
\* handler that threw) arrives before the timeout
tcpReceive(c) ==
  /\ calls[c].pc = "await_tcp"
  /\ net[c].st \in {"reply", "rpc_error"}
  /\ ~timedOut(c)
  /\ calls' = [calls EXCEPT ![c] = [@ EXCEPT !.pc = "save",
                                             !.response = IF net[c].st = "reply" THEN net[c].reply
                                                          ELSE TcpErrorResponse("Internal server error")]]
  /\ net' = [net EXCEPT ![c] = [@ EXCEPT !.st = "closed"]]
  /\ UNCHANGED <<attempts, received, delivered, now, lastCreate, mailbox, health, probe, templates>>

\* what the timeout operator does to the exchange when it fires: it unsubscribes
\* from the response, the request stays where it is
unsubscribe_Cancel(exchange) ==
  IF exchange.st = "request" THEN [exchange EXCEPT !.st = "lost"] ELSE exchange
unsubscribe(exchange) == exchange

\* TcpClientService.sendPhishingEmail: timeout(30000) fires, no cancellation
\* reaches the dispatcher
tcpTimeout(c) ==
  /\ calls[c].pc = "await_tcp"
  /\ timedOut(c)
  /\ calls' = [calls EXCEPT ![c] = [@ EXCEPT !.pc = "save",
                                             !.response = TcpErrorResponse("Timeout has occurred")]]
  /\ net' = [net EXCEPT ![c] = unsubscribe(@)]
  /\ UNCHANGED <<attempts, received, delivered, now, lastCreate, mailbox, health, probe, templates>>

\* TcpClientService.sendPhishingEmail: the connection fails, the request never
\* reaches the dispatcher
tcpConnectionError(c) ==
  /\ calls[c].pc = "await_tcp"
  /\ net[c].st = "request"
  /\ calls' = [calls EXCEPT ![c] = [@ EXCEPT !.pc = "save",
                                             !.response = TcpErrorResponse("connect ECONNREFUSED")]]
  /\ net' = [net EXCEPT ![c] = [@ EXCEPT !.st = "lost"]]
  /\ UNCHANGED <<attempts, received, delivered, now, lastCreate, mailbox, health, probe, templates>>

\* PhishingService.sendPhishingEmail after the channel call: the branch on
\* response.success and the save() of that branch
sendSave(c) ==
  /\ calls[c].pc = "save"
  /\ LET me == calls[c]
         r == me.response
         d0 == [doc |-> me.doc, dirty |-> me.dirty] IN
     IF r.success
     THEN LET d1 == SetPath(d0, "status", SENT)
              d2 == SetPath(d1, "sentAt", resolveSentAt(r, now)) IN
          /\ attempts' = save(me.id, d2.doc, d2.dirty)
          /\ calls' = [calls EXCEPT ![c] = [@ EXCEPT !.pc = "done", !.doc = d2.doc,
                                                     !.dirty = {}, !.result = Returned]]
     ELSE LET d1 == markFailed(d0) IN
          /\ attempts' = save(me.id, d1.doc, d1.dirty)
          /\ calls' = [calls EXCEPT ![c] = [@ EXCEPT !.pc = "catch", !.doc = d1.doc,
                                                     !.dirty = {}, !.thrown = SendFailedException(r)]]
  /\ UNCHANGED <<net, received, delivered, now, lastCreate, mailbox, health, probe, templates>>

\* PhishingService.sendPhishingEmail, the catch block: status = FAILED and
\* save() once more, then the BadRequestException is thrown again
sendCatch(c) ==
  /\ calls[c].pc = "catch"
  /\ LET me == calls[c]
         d1 == markFailed([doc |-> me.doc, dirty |-> me.dirty]) IN
     /\ attempts' = save(me.id, d1.doc, d1.dirty)
     /\ calls' = [calls EXCEPT ![c] = [@ EXCEPT !.pc = "done", !.doc = d1.doc,
                                                !.dirty = {}, !.result = me.thrown]]
  /\ UNCHANGED <<net, received, delivered, now, lastCreate, mailbox, health, probe, templates>>

\* PhishingService.markAsClicked up to save(): findById, the already-clicked
\* return, the two assignments
clickFind(c, id) ==
  /\ CanInvoke(c)
  /\ LET attempt == findById(id)
         base == [calls[c] EXCEPT !.op = "click", !.id = id, !.after = Completed] IN
     IF attempt = NullDoc
     THEN calls' = [calls EXCEPT ![c] = [base EXCEPT !.pc = "done", !.result = NotFoundException]]
     ELSE IF AlreadyClickedGuard(attempt)
     THEN calls' = [calls EXCEPT ![c] = [base EXCEPT !.pc = "done", !.doc = attempt,
                                                     !.result = Returned]]
     ELSE LET d1 == SetPath([doc |-> attempt, dirty |-> {}], "status", CLICKED)
              d2 == SetPath(d1, "clickedAt", <<now>>) IN
          calls' = [calls EXCEPT ![c] = [base EXCEPT !.pc = "click_save", !.doc = d2.doc,
                                                     !.dirty = d2.dirty]]
  /\ UNCHANGED <<attempts, net, received, delivered, now, lastCreate, mailbox, health, probe, templates>>

\* PhishingService.markAsClicked: return attempt.save()
clickSave(c) ==
  /\ calls[c].pc = "click_save"
  /\ attempts' = save(calls[c].id, calls[c].doc, calls[c].dirty)
  /\ calls' = [calls EXCEPT ![c] = [@ EXCEPT !.pc = "done", !.dirty = {}, !.result = Returned]]
  /\ UNCHANGED <<net, received, delivered, now, lastCreate, mailbox, health, probe, templates>>

\* GET click/:attemptId requested from a tracking link of a delivered mail
followLink(c) ==
  \E m \in mailbox : \E k \in DOMAIN m.html : \E id \in Ids :
    /\ m.html[k] = generateClickTrackingUrl(id)
    /\ clickFind(c, id)

\* EmailController.handleHealthCheck with EmailService.healthCheck
handleHealthCheck(verify) ==
  /\ health' = healthResponse(healthCheck(verify), now)
  /\ UNCHANGED <<attempts, calls, net, received, delivered, now, lastCreate, mailbox, probe, templates>>

\* TemplateService.getAllTemplates
getAllTemplates ==
  /\ probe' = [op |-> "getAllTemplates", input |-> <<>>, output |-> templates]
  /\ UNCHANGED <<attempts, calls, net, received, delivered, now, lastCreate, mailbox, health, templates>>

\* EMAIL_TEMPLATES[0]
FirstTemplate_Last(catalog) == catalog[Len(catalog)]
FirstTemplate(catalog) == catalog[1]

\* TemplateService.getDefaultTemplate
getDefaultTemplate ==
  /\ probe' = [op |-> "getDefaultTemplate", input |-> <<>>, output |-> FirstTemplate(templates)]
  /\ UNCHANGED <<attempts, calls, net, received, delivered, now, lastCreate, mailbox, health, templates>>

\* TemplateService.validateTemplate applied to a content
callValidateTemplate(content) ==
  /\ probe' = [op |-> "validateTemplate", input |-> content, output |-> validateTemplate(content)]
  /\ UNCHANGED <<attempts, calls, net, received, delivered, now, lastCreate, mailbox, health, templates>>

\* time passes; a timer that has run out fires before time moves on
Tick ==
  /\ now + TickStep <= MaxNow
  /\ \A c \in Calls : calls[c].pc = "await_tcp" => ~timedOut(c)
  /\ now' = now + TickStep
  /\ UNCHANGED <<attempts, calls, net, received, delivered, lastCreate, mailbox, health, probe, templates>>

\* in the specifications with the clock and overlapping requests, campaigns are
\* created before the clock starts; ListSpec creates them at any time
ClockNotStarted == now = 0

Next ==
  \/ \E dto \in SpecDtos, u \in SpecUsers : ClockNotStarted /\ createAttempt(dto, u)
  \/ \E c \in Calls, id \in Ids, u \in SpecUsers : sendFind(c, id, u)
  \/ \E c \in Calls, o \in TransportOutcomes : handleSendPhishingEmail(c, o)
  \/ \E c \in Calls : tcpReceive(c)
  \/ \E c \in Calls : tcpTimeout(c)
  \/ \E c \in Calls : tcpConnectionError(c)
  \/ \E c \in Calls : sendSave(c)
  \/ \E c \in Calls : sendCatch(c)
  \/ \E c \in Calls, id \in Ids : clickFind(c, id)
  \/ \E c \in Calls : clickSave(c)
  \/ Tick

Spec == Init /\ [][Next]_vars

TypeOK ==
  /\ Len(attempts) <= MaxAttempts
  /\ \A i \in DOMAIN attempts : attempts[i].status \in {PENDING, SENT, CLICKED, FAILED}
  /\ now \in 0..MaxNow

\* the same operations, no two HTTP requests overlapping: a request is taken
\* only when every earlier one has been answered
NoCallInFlight == \A c \in Calls : calls[c].pc \in {"idle", "done"}

NextSeq ==
  \/ \E dto \in SpecDtos, u \in SpecUsers : createAttempt(dto, u)
  \/ \E c \in Calls, id \in Ids, u \in SpecUsers : NoCallInFlight /\ sendFind(c, id, u)
  \/ \E c \in Calls, o \in TransportOutcomes : handleSendPhishingEmail(c, o)
  \/ \E c \in Calls : tcpReceive(c)
  \/ \E c \in Calls : tcpTimeout(c)
  \/ \E c \in Calls : tcpConnectionError(c)
  \/ \E c \in Calls : sendSave(c)
  \/ \E c \in Calls : sendCatch(c)
  \/ \E c \in Calls, id \in Ids : NoCallInFlight /\ clickFind(c, id)
  \/ \E c \in Calls : clickSave(c)
  \/ Tick

SeqSpec == Init /\ [][NextSeq]_vars

\* time passes, a timer that has run out fires, a response that has arrived is
\* taken, and the store answers every save; nothing obliges the dispatcher to
\* respond
Fairness ==
  /\ WF_vars(Tick)
  /\ \A c \in Calls : /\ WF_vars(tcpTimeout(c))
                      /\ WF_vars(tcpReceive(c))
                      /\ WF_vars(sendSave(c))
                      /\ WF_vars(sendCatch(c))
                      /\ WF_vars(clickSave(c))

\* the requests taken under the fairness conditions
FairCalls == {c \in Calls : c <= MaxFairCalls}

NextFair ==
  \/ \E dto \in SpecDtos, u \in SpecUsers : ClockNotStarted /\ createAttempt(dto, u)
  \/ \E c \in FairCalls, id \in Ids, u \in SpecUsers : sendFind(c, id, u)
  \/ \E c \in Calls, o \in TransportOutcomes : handleSendPhishingEmail(c, o)
  \/ \E c \in Calls : tcpReceive(c)
  \/ \E c \in Calls : tcpTimeout(c)
  \/ \E c \in Calls : tcpConnectionError(c)
  \/ \E c \in Calls : sendSave(c)
  \/ \E c \in Calls : sendCatch(c)
  \/ \E c \in FairCalls, id \in Ids : clickFind(c, id)
  \/ \E c \in Calls : clickSave(c)
  \/ Tick

FairSpec == Init /\ [][NextFair]_vars /\ Fairness

\* campaign creation alone, by every operator and with every kind of request body
NextCreate == \E dto \in CreateDtos, u \in Users : createAttempt(dto, u)

CreateSpec == Init /\ [][NextCreate]_vars

\* sending with every operator as creator and as caller and every outcome inside
\* the dispatcher, for the first MaxWideCalls requests
WideCalls == {c \in Calls : c <= MaxWideCalls}

NextWide ==
  \/ \E dto \in SpecDtos, u \in Users : createAttempt(dto, u)
  \/ \E c \in WideCalls, id \in Ids, u \in Users : sendFind(c, id, u)
  \/ \E c \in Calls, o \in AllOutcomes : handleSendPhishingEmail(c, o)
  \/ \E c \in Calls : tcpReceive(c)
  \/ \E c \in Calls : tcpConnectionError(c)
  \/ \E c \in Calls : sendSave(c)
  \/ \E c \in Calls : sendCatch(c)

WideSpec == Init /\ [][NextWide]_vars

\* creation at any time, by every operator
NextList ==
  \/ \E dto \in SpecDtos, u \in Users : createAttempt(dto, u)
  \/ Tick

ListSpec == Init /\ [][NextList]_vars

\* the contents handed to the catalog's validation: up to MaxPieces pieces
TemplatePieces ==
  {CLICK_LINK, TIMESTAMP, Piece("<p>", 1), Piece("<div>half</div>", 24993), Piece("<div>body</div>", 49986)}
Contents == UNION {[1..n -> TemplatePieces] : n \in 0..MaxPieces}

NextTemplate ==
  \/ \E content \in Contents : callValidateTemplate(content)
  \/ getDefaultTemplate
  \/ getAllTemplates

TemplateSpec == Init /\ [][NextTemplate]_vars

\* one request at a time from creation to the click on a delivered link, with a
\* content of two placeholders, every outcome inside the dispatcher and health
\* checks in between
TwoLinkContent ==
  <<Piece("<a href=", 8), CLICK_LINK, Piece(">one</a> sent ", 14), TIMESTAMP,
    Piece(" <a href=", 9), CLICK_LINK, Piece(">two</a>", 8)>>
MailDtos == {DefaultDto, [DefaultDto EXCEPT !.emailContent = <<TwoLinkContent>>]}

NextMail ==
  \/ \E dto \in MailDtos, u \in SpecUsers : createAttempt(dto, u)
  \/ \E c \in Calls, id \in Ids, u \in SpecUsers : NoCallInFlight /\ sendFind(c, id, u)
  \/ \E c \in Calls, o \in AllOutcomes : handleSendPhishingEmail(c, o)
  \/ \E c \in Calls : tcpReceive(c)
  \/ \E c \in Calls : tcpConnectionError(c)
  \/ \E c \in Calls : sendSave(c)
  \/ \E c \in Calls : sendCatch(c)
  \/ \E c \in Calls : NoCallInFlight /\ followLink(c)
  \/ \E c \in Calls : clickSave(c)
  \/ \E v \in VerifyOutcomes : handleHealthCheck(v)

MailSpec == Init /\ [][NextMail]_vars

\* ------------------------------------------------------------ vocabulary
Contains(msg, token) == \E i \in DOMAIN msg : msg[i] = token

SendCalls == {c \in Calls : calls[c].op = "send"}
ClickCalls == {c \in Calls : calls[c].op = "click"}

\* call c handed a send request to the channel
Dispatched(c) == net[c].st # "none"

\* call c got its response from the channel client's catch block
ChannelFailed(c) == calls[c].response.error.code = "TCP_COMMUNICATION_ERROR"

\* send call b completed having stored SENT or FAILED
CompletedSend(b) ==
  /\ calls[b].op = "send"
  /\ calls[b].pc = "done"
  /\ Dispatched(b)

AllowedTransitions == {<<PENDING, SENT>>, <<PENDING, FAILED>>, <<SENT, CLICKED>>}

\* ------------------------------------------------------------------ claims

\* C1: every change of a campaign's stored status is one of PENDING->SENT,
\* PENDING->FAILED, SENT->CLICKED.
C1_OnlyAllowedTransitions ==
  [][\A i \in DOMAIN attempts :
       attempts'[i].status # attempts[i].status
         => <<attempts[i].status, attempts'[i].status>> \in AllowedTransitions]_vars

\* C2: of two sendCampaign calls on the same campaign that both observed PENDING,
\* at most one completes successfully.
C2_AtMostOneSendSucceeds ==
  \A a \in SendCalls, b \in SendCalls :
    (a # b /\ calls[a].id = calls[b].id /\ calls[a].result = Returned)
      => calls[b].result # Returned

\* C3: the Send Dispatcher receives at most one send request per campaign id.
C3_AtMostOnceSend == \A i \in Ids : received[i] <= 1

\* C4: a sendCampaign call invoked after an earlier sendCampaign call on the same
\* id completed with SENT or FAILED is answered "already processed" in its first
\* step, hands nothing to the channel and leaves the store as it was.
C4_SecondSendRejected ==
  [][\A c \in Calls :
       ( /\ calls[c].pc = "idle"
         /\ calls'[c].op = "send"
         /\ \E b \in Completed : CompletedSend(b) /\ calls[b].id = calls'[c].id )
       => /\ calls'[c].pc = "done"
          /\ calls'[c].result = AlreadyProcessed
          /\ net' = net
          /\ received' = received
          /\ attempts' = attempts]_vars

C4_Witness ==
  \E b \in Calls, c \in Calls :
    /\ b \in calls[c].after
    /\ CompletedSend(b)
    /\ calls[c].op = "send"
    /\ calls[c].id = calls[b].id
    /\ calls[c].result = AlreadyProcessed
    /\ attempts[calls[b].id].status = FAILED

\* C5: the save that follows the channel call stores SENT for a successful result
\* and FAILED for a failed result or a channel error; a call that dispatched
\* completes with the record returned exactly in the first case, and when it has
\* completed the campaign is not PENDING.
C5_NeverLeftPending ==
  [][\A c \in Calls :
       /\ (calls[c].pc = "save" /\ calls'[c].pc # "save")
            => attempts'[calls[c].id].status =
                 (IF calls[c].response.success THEN SENT ELSE FAILED)
       /\ (calls'[c].pc = "done" /\ calls'[c].op = "send" /\ Dispatched(c)')
            => /\ attempts'[calls'[c].id].status # PENDING
               /\ (calls'[c].result = Returned) = calls'[c].response.success
               /\ calls'[c].result.kind \in {"ok", "BadRequestException"}]_vars

C5_Witness ==
  \E c \in Calls :
    /\ CompletedSend(c)
    /\ ChannelFailed(c)
    /\ calls[c].result.kind = "BadRequestException"
    /\ attempts[calls[c].id].status = FAILED

\* C6: a sendCampaign call that waits on the channel completes; unless the
\* dispatcher responds, the call stores FAILED and completes with an error that
\* stems from the channel client's timeout or connection failure.
C6_SendTerminates ==
  \A c \in Calls :
    /\ (calls[c].pc = "await_tcp") ~> (calls[c].pc = "done")
    /\ (calls[c].pc = "await_tcp")
         ~> ( \/ net[c].st = "reply"
              \/ /\ calls[c].pc = "catch"
                 /\ ChannelFailed(c)
                 /\ attempts[calls[c].id].status = FAILED )
    /\ (calls[c].pc = "await_tcp")
         ~> ( \/ net[c].st = "reply"
              \/ /\ calls[c].pc = "done"
                 /\ ChannelFailed(c)
                 /\ calls[c].result.kind = "BadRequestException" )

C6_Witness ==
  \E c \in Calls :
    /\ calls[c].pc = "done"
    /\ net[c].st = "request"
    /\ calls[c].response = TcpErrorResponse("Timeout has occurred")
    /\ calls[c].result.kind = "BadRequestException"
    /\ attempts[calls[c].id].status = FAILED
    /\ now - calls[c].started >= TCP_TIMEOUT

\* C7: when the channel call failed, the error sendCampaign reports contains the
\* channel-error code and the underlying failure reason.
C7_ErrorCarriesChannelCode ==
  \A c \in SendCalls :
    (calls[c].pc = "done" /\ ChannelFailed(c))
      => /\ Contains(calls[c].result.message, calls[c].response.error.code)
         /\ Contains(calls[c].result.message, calls[c].response.error.message)

\* C8: of two recordClick calls on the same id made one after the other, the
\* second returns the record the first returned, and the stored status and
\* clickedAt are those the first call left.
C8_ClickIdempotent ==
  \A b \in ClickCalls, c \in ClickCalls :
    ( /\ b \in calls[c].after
      /\ calls[b].id = calls[c].id
      /\ calls[b].result = Returned
      /\ calls[c].pc = "done" )
    => /\ calls[c].result = Returned
       /\ calls[c].doc = calls[b].doc
       /\ attempts[calls[c].id].status = calls[b].doc.status
       /\ attempts[calls[c].id].clickedAt = calls[b].doc.clickedAt

C8_Witness ==
  \E b \in ClickCalls, c \in ClickCalls :
    /\ b \in calls[c].after
    /\ calls[b].id = calls[c].id
    /\ calls[b].result = Returned
    /\ calls[c].result = Returned
    /\ attempts[calls[c].id].clickedAt # NoDate
    /\ attempts[calls[c].id].clickedAt # <<now>>

\* C9: a clickedAt that has been stored is never overwritten.
C9_ClickedAtWrittenOnce ==
  [][\A i \in DOMAIN attempts :
       attempts[i].clickedAt # NoDate => attempts'[i].clickedAt = attempts[i].clickedAt]_vars

\* C10: sentAt is set only on a campaign whose status is SENT or CLICKED, and a
\* sentAt that has been stored is never written again.
C10_SentAtOnlyWhenSent ==
  [][\A i \in DOMAIN attempts :
       /\ attempts'[i].sentAt # NoDate => attempts'[i].status \in {SENT, CLICKED}
       /\ attempts[i].sentAt # NoDate => attempts'[i].sentAt = attempts[i].sentAt]_vars

\* C11: once a campaign's stored status is CLICKED, no step changes its status
\* or its clickedAt.
C11_ClickedIsTerminal ==
  [][\A i \in DOMAIN attempts :
       attempts[i].status = CLICKED
         => /\ attempts'[i].status = CLICKED
            /\ attempts'[i].clickedAt = attempts[i].clickedAt]_vars

\* C12: a create request whose caller-supplied content lacks the click-link
\* placeholder is answered with a validation error and persists nothing.
C12_PlaceholderRequired ==
  [][LET req == lastCreate' IN
       (req.dto.emailContent # Undefined /\ ~Includes(req.dto.emailContent[1], CLICK_LINK))
         => /\ req.response.kind = "BadRequestException"
            /\ attempts' = attempts]_vars

\* C13: a create request with a recipient that is no address or with content over
\* the size limit is answered with a validation error and leaves the store as it
\* was.
NoAddress(dto) == ~Includes(dto.recipientEmail, AtSign)
Oversized(dto) == dto.emailContent # Undefined /\ StrLen(dto.emailContent[1]) > MAX_CONTENT_LENGTH

C13_InvalidCreateChangesNothing ==
  [][LET req == lastCreate' IN
       (NoAddress(req.dto) \/ Oversized(req.dto))
         => /\ req.response.kind = "BadRequestException"
            /\ req.response.message # <<>>
            /\ attempts' = attempts]_vars

C13_Witness ==
  /\ Len(attempts) >= 1
  /\ NoAddress(lastCreate.dto)
  /\ lastCreate.response.kind = "BadRequestException"

C15_OwnerScopedReads ==
  \A u \in Users :
    LET list == getAllAttempts(u) IN
    /\ \A k \in DOMAIN list : list[k].doc.createdBy = u
    /\ \A i \in DOMAIN attempts :
         attempts[i].createdBy = u => \E k \in DOMAIN list : list[k] = [id |-> i, doc |-> attempts[i]]
    /\ \A i \in Ids :
         IF i \in DOMAIN attempts /\ attempts[i].createdBy = u
         THEN getAttemptById(i, u).doc = attempts[i]
         ELSE /\ getAttemptById(i, u).result.kind = "NotFoundException"
              /\ getAttemptById(i, u).doc = NullDoc

C15_Witness ==
  \E i \in DOMAIN attempts, j \in DOMAIN attempts :
    /\ attempts[i].createdBy = "u1"
    /\ attempts[j].createdBy = "u2"

\* C16: a send invoked by an operator who did not create the campaign hands
\* nothing to the channel, is not answered with the record and leaves the
\* campaign PENDING.
C16_OnlyOwnerSends ==
  \A c \in SendCalls :
    (calls[c].id \in DOMAIN attempts /\ attempts[calls[c].id].createdBy # calls[c].user)
      => /\ ~Dispatched(c)
         /\ calls[c].result # Returned
         /\ attempts[calls[c].id].status = PENDING

\* C17: with requests handled one after the other, a campaign created from the
\* default request is PENDING with the default subject and content; the save after
\* a successful result stores SENT and the sentAt of the result; the save of a
\* click on a SENT campaign stores CLICKED and a clickedAt.
C17_EndToEnd ==
  [][/\ Len(attempts') > Len(attempts)
          => LET new == attempts'[Len(attempts')] IN
             /\ new.status = PENDING
             /\ new.emailContent = defaultContent
             /\ new.sentAt = NoDate /\ new.clickedAt = NoDate
     /\ \A c \in Calls :
          /\ (calls[c].pc = "save" /\ calls'[c].pc = "done")
               => /\ calls[c].response.success
                  /\ calls[c].response.sentAt # NoDate
                  /\ attempts'[calls[c].id].status = SENT
                  /\ attempts'[calls[c].id].sentAt = calls[c].response.sentAt
                  /\ calls'[c].doc.sentAt = calls[c].response.sentAt
          /\ (calls[c].pc = "click_save" /\ calls'[c].pc = "done"
                /\ attempts[calls[c].id].status = SENT)
               => /\ attempts'[calls[c].id].status = CLICKED
                  /\ attempts'[calls[c].id].clickedAt # NoDate
                  /\ attempts'[calls[c].id].sentAt = attempts[calls[c].id].sentAt]_vars

C17_Witness ==
  \E i \in DOMAIN attempts :
    /\ attempts[i].status = CLICKED
    /\ attempts[i].sentAt # NoDate
    /\ attempts[i].clickedAt # NoDate
    /\ attempts[i].clickedAt # attempts[i].sentAt
    /\ \E c \in SendCalls : calls[c].id = i /\ calls[c].result = Returned

\* C18: whatever happens inside the dispatcher, the request is answered with a
\* structured result: success with a sentAt exactly when the transport accepted
\* the mail, otherwise success=false with an error code and message.
C18_DispatcherNeverThrows ==
  [][\A c \in Calls :
       (net[c].st = "request" /\ net'[c].st # "request" /\ net'[c].st # "lost")
         => LET r == net'[c].reply
                id == net[c].dto.attemptId IN
            /\ net'[c].st = "reply"
            /\ r.success = (delivered'[id] = delivered[id] + 1)
            /\ r.success => (r.sentAt # NoDate /\ r.error = NoError)
            /\ ~r.success => (r.sentAt = NoDate /\ r.error.code # "" /\ r.error.message # "")]_vars

C18_Witness ==
  \E c \in Calls :
    /\ net[c].st = "reply"
    /\ ~net[c].reply.success
    /\ net[c].reply.error.message = "unexpected exception"

\* C19: the public click path answers every completed click with a redirect to
\* the phished page of the given id, whether the click was recorded or the id is
\* unknown; a click on an unknown id leaves the store as it was.
C19_ClickAlwaysRedirects ==
  [][\A c \in Calls :
       (calls[c].pc # "done" /\ calls'[c].pc = "done" /\ calls'[c].op = "click")
         => LET http == ctlTrackClick(calls'[c].result, calls'[c].id) IN
            /\ http.kind = "redirect"
            /\ http.location = PhishedPage(calls'[c].id)
            /\ calls'[c].id \notin DOMAIN attempts
                 => /\ calls'[c].result.kind = "NotFoundException"
                    /\ attempts' = attempts]_vars

C19_Witness ==
  \E c \in ClickCalls :
    /\ calls[c].pc = "done"
    /\ calls[c].result.kind = "NotFoundException"
    /\ Len(attempts) >= 1
    /\ calls[c].id \notin DOMAIN attempts

FailedExchange(c) == net[c].st # "closed" \/ ~net[c].reply.success

C21_FailuresAlike ==
  [][\A c \in Calls :
       /\ ( /\ calls[c].pc = "save" /\ calls'[c].pc # "save"
            /\ FailedExchange(c)
            /\ attempts[calls[c].id].status = PENDING )
          => /\ attempts' = [attempts EXCEPT ![calls[c].id].status = FAILED]
             /\ attempts'[calls[c].id].sentAt = NoDate
             /\ calls'[c].pc = "catch"
             /\ calls'[c].thrown.kind = "BadRequestException"
       /\ (calls[c].pc = "catch" /\ calls'[c].pc = "done")
          => /\ calls'[c].result = calls[c].thrown
             /\ calls'[c].result.kind = "BadRequestException"
             /\ attempts'[calls[c].id].status = FAILED]_vars

C21_Witness ==
  \E a \in SendCalls, b \in SendCalls :
    /\ calls[a].pc = "done" /\ calls[b].pc = "done"
    /\ ChannelFailed(a)
    /\ net[b].st = "closed" /\ ~net[b].reply.success /\ ~ChannelFailed(b)
    /\ calls[a].id # calls[b].id
    /\ \A i \in {calls[a].id, calls[b].id} :
         attempts[i].status = FAILED /\ attempts[i].sentAt = NoDate

\* C22: validateTemplate answers valid exactly for a content with the click-link
\* placeholder and of at most 50,000 characters, with one error per violated rule.
C22_ValidateTemplate ==
  probe.op = "validateTemplate"
    => LET content == probe.input
           r == probe.output
           hasLink == \E i \in DOMAIN content : content[i].t = "{{CLICK_LINK}}"
           fits == StrLen(content) <= MAX_TEMPLATE_LENGTH
       IN /\ r.valid = (hasLink /\ fits)
          /\ r.valid = (r.errors = <<>>)
          /\ Len(r.errors) = (IF hasLink THEN 0 ELSE 1) + (IF fits THEN 0 ELSE 1)
          /\ ~hasLink = Contains(r.errors, "Template must include {{CLICK_LINK}} placeholder")
          /\ ~fits = Contains(r.errors, "Template content too large (max 50KB)")

C22_Witness ==
  /\ probe.op = "validateTemplate"
  /\ Len(probe.output.errors) = 2
  /\ StrLen(probe.input) > MAX_TEMPLATE_LENGTH

\* C23: the list of an operator is ordered by createdAt, newest first, and its
\* records carry no emailContent.
C23_ListNewestFirstNoBody ==
  \A u \in Users :
    LET list == getAllAttempts(u) IN
    /\ \A k \in 1..(Len(list) - 1) : list[k].doc.createdAt[1] >= list[k + 1].doc.createdAt[1]
    /\ \A k \in DOMAIN list : "emailContent" \notin DOMAIN list[k].doc

\* C24: the timeout of the channel call leaves the request where it is, and the
\* dispatcher handles a request whose caller has stopped waiting like any other:
\* the mail goes out and neither the store nor the call is touched.
C24_NoCancellation ==
  [][\A c \in Calls :
       /\ ( /\ calls[c].pc = "await_tcp" /\ calls'[c].pc = "save"
            /\ calls'[c].response = TcpErrorResponse("Timeout has occurred") )
          => net'[c] = net[c]
       /\ ( /\ net[c].st = "request" /\ net'[c].st = "reply"
            /\ calls[c].pc # "await_tcp" )
          => /\ calls' = calls
             /\ attempts' = attempts
             /\ net'[c].reply.success
                  => delivered'[net[c].dto.attemptId] = delivered[net[c].dto.attemptId] + 1]_vars

C24_Witness ==
  \E c \in SendCalls :
    /\ calls[c].pc = "done"
    /\ calls[c].response = TcpErrorResponse("Timeout has occurred")
    /\ attempts[calls[c].id].status = FAILED
    /\ net[c].st = "reply" /\ net[c].reply.success
    /\ delivered[calls[c].id] = 1
    /\ received[calls[c].id] = 1

\* C25: no step changes the creator, recipient, subject, content or createdAt of
\* a stored campaign or removes a campaign, and a campaign changes only in a
\* save of a send or click call on its id.
ImmutableFields == {"createdBy", "recipientEmail", "subject", "emailContent", "createdAt"}

C25_Frame ==
  [][attempts' # attempts
       => /\ Len(attempts') >= Len(attempts)
          /\ \A i \in DOMAIN attempts :
               attempts'[i] # attempts[i]
                 => /\ \A f \in ImmutableFields : attempts'[i][f] = attempts[i][f]
                    /\ \E c \in Calls : /\ calls[c].id = i
                                        /\ calls[c].pc \in {"save", "catch", "click_save"}
                                        /\ calls'[c].pc # calls[c].pc]_vars

C25_Witness ==
  /\ Len(attempts) = 2
  /\ attempts[1].status = CLICKED /\ attempts[1].sentAt # NoDate
  /\ attempts[2].status = PENDING
  /\ attempts[1].emailContent = defaultContent
  /\ attempts[1].createdAt = <<0>>

\* C26: a create request that is accepted appends exactly one record, PENDING,
\* created by the caller, without sentAt and clickedAt, whose subject and content
\* are the supplied ones, or those of the default template when not supplied.
C26_CreateStoresGiven ==
  [][lastCreate'.response = Returned
       => LET dto == lastCreate'.dto
              new == attempts'[Len(attempts')] IN
          /\ Len(attempts') = Len(attempts) + 1
          /\ SubSeq(attempts', 1, Len(attempts)) = attempts
          /\ new.status = PENDING
          /\ new.createdBy = lastCreate'.userId
          /\ new.sentAt = NoDate /\ new.clickedAt = NoDate
          /\ new.recipientEmail = dto.recipientEmail
          /\ new.subject = (IF dto.subject = Undefined THEN FirstTemplate(templates).subject
                            ELSE dto.subject[1])
          /\ new.emailContent = (IF dto.emailContent = Undefined THEN FirstTemplate(templates).content
                                 ELSE dto.emailContent[1])
          /\ Includes(FirstTemplate(templates).content, CLICK_LINK)]_vars

\* C27: the send request carries the stored recipient, subject and content and
\* the campaign's id; a delivered mail has the stored content with every
\* placeholder replaced by the tracking URL of that id, so it holds no placeholder
\* and no tracking URL of another campaign; the click that follows a link of a
\* mail is stored on the campaign of that mail and changes no other campaign.
C27_TrackingLinks ==
  [][/\ \A c \in Calls :
          (net[c].st = "none" /\ net'[c].st = "request")
            => LET a == attempts[calls'[c].id] IN
               net'[c].dto = [attemptId |-> calls'[c].id, recipientEmail |-> a.recipientEmail,
                              subject |-> a.subject, emailContent |-> a.emailContent]
     /\ \A m \in mailbox' :
          /\ m.attemptId \in DOMAIN attempts'
          /\ LET a == attempts'[m.attemptId] IN
             /\ m.to = a.recipientEmail
             /\ m.subject = a.subject
             /\ Len(m.html) = Len(a.emailContent)
             /\ \A k \in DOMAIN m.html :
                  /\ m.html[k] # CLICK_LINK
                  /\ a.emailContent[k] = CLICK_LINK
                       => m.html[k] = generateClickTrackingUrl(m.attemptId)
                  /\ a.emailContent[k] \notin {CLICK_LINK, TIMESTAMP} => m.html[k] = a.emailContent[k]
                  /\ \A i \in Ids : m.html[k] = generateClickTrackingUrl(i) => i = m.attemptId
     /\ \A c \in Calls :
          (calls[c].pc = "click_save" /\ calls'[c].pc = "done")
            => /\ \E m \in mailbox : m.attemptId = calls[c].id
               /\ attempts'[calls[c].id].status = CLICKED
               /\ \A i \in DOMAIN attempts : i # calls[c].id => attempts'[i] = attempts[i]]_vars

C27_Witness ==
  \E m \in mailbox :
    /\ Cardinality({k \in DOMAIN m.html : m.html[k] = generateClickTrackingUrl(m.attemptId)}) = 2
    /\ m.attemptId = 2
    /\ attempts[2].status = CLICKED
    /\ attempts[1].status # CLICKED

\* C28: every template of the catalog holds exactly one click-link placeholder and
\* passes validateTemplate, the catalog stays as compiled in, getDefaultTemplate
\* answers its first entry and getAllTemplates the whole catalog.
C28_Catalog ==
  /\ templates = EMAIL_TEMPLATES
  /\ \A k \in DOMAIN templates :
       /\ Cardinality({i \in DOMAIN templates[k].content : templates[k].content[i] = CLICK_LINK}) = 1
       /\ validateTemplate(templates[k].content).valid
  /\ probe.op = "getDefaultTemplate"
       => probe.output = templates[1] /\ probe.output.id = "security-verification"
  /\ probe.op = "getAllTemplates" => probe.output = EMAIL_TEMPLATES

C28_Witness ==
  /\ probe.op = "getDefaultTemplate"
  /\ probe.output.content = defaultContent
  /\ Len(templates) = 5

\* C29: a health response is "healthy" exactly with emailServiceReady true and
\* "degraded" exactly with emailServiceReady false, never "unhealthy"; a health
\* check changes nothing of store, calls, channel and mails, and a waiting send
\* request can be handled and accepted whatever the last health response was.
C29_HealthCheck ==
  [][/\ health'.status \in {"none", "healthy", "degraded"}
     /\ health'.status # "none"
          => /\ (health'.status = "healthy") = health'.emailServiceReady
             /\ (health'.status = "degraded") = ~health'.emailServiceReady
     /\ health' # health
          => UNCHANGED <<attempts, calls, net, received, delivered, mailbox>>
     /\ \A c \in Calls :
          (net[c].st = "request" /\ net'[c].st = "reply")
            => /\ health' = health
               /\ net'[c].reply.success = (delivered' # delivered)]_vars

C29_Witness ==
  /\ health.status = "degraded"
  /\ ~health.emailServiceReady
  /\ \E c \in Calls : net[c].st = "request" /\ ENABLED handleSendPhishingEmail(c, "accepted")

\* C30: a timeout or connection error reaches the orchestrator as a result with
\* success=false and code TCP_COMMUNICATION_ERROR, never as an exception; the
\* save that follows stores FAILED, and the save of the catch block leaves the
\* store as it is.
C30_ChannelClientNeverThrows ==
  [][\A c \in Calls :
       /\ (calls[c].pc = "await_tcp" /\ calls'[c].pc # "await_tcp" /\ net'[c].st # "closed")
          => /\ calls'[c].pc = "save"
             /\ calls'[c].thrown = NoResult
             /\ ~calls'[c].response.success
             /\ calls'[c].response.error.code = "TCP_COMMUNICATION_ERROR"
             /\ calls'[c].response.error.message # ""
       /\ (calls[c].pc = "save" /\ calls'[c].pc # "save" /\ ChannelFailed(c))
          => /\ attempts'[calls[c].id].status = FAILED
             /\ calls'[c].pc = "catch"
       /\ (calls[c].pc = "catch" /\ calls'[c].pc = "done")
          => /\ attempts' = attempts
             /\ calls'[c].result = calls[c].thrown]_vars

C30_Witness ==
  \E c \in SendCalls :
    /\ calls[c].pc = "done"
    /\ calls[c].response = TcpErrorResponse("connect ECONNREFUSED")
    /\ net[c].st = "lost"
    /\ calls[c].result.kind = "BadRequestException"
    /\ attempts[calls[c].id].status = CLICKED

====
